---- MODULE Spec2Model ----
(***************************************************************************)
(* webwhatsapi/objects/message.py: factory_message, the Message variants   *)
(* (Message, MediaMessage, MMSMessage, VCardMessage, NotificationMessage), *)
(* their __repr__ and MediaMessage.save_media.                             *)
(*                                                                         *)
(* Python values are modelled as follows.                                  *)
(*   dict / object   a function from key (attribute) names to values; a    *)
(*                   key is present iff it is in the DOMAIN, so d[k] on a  *)
(*                   missing key is KeyError and a missing attribute is    *)
(*                   AttributeError.                                       *)
(*   str             a TLA+ string (Len, SubSeq, \o act on characters).    *)
(*                   The character "^" stands for a code point above 127.  *)
(*   bytes           a sequence of integers 0..255 (file contents), or a   *)
(*                   tagged string [kind |-> "bytes", s |-> ...] where the *)
(*                   value comes from str.encode.                          *)
(*   None            the empty tuple where a value is optional.            *)
(*   a call          a record whose field exc names the exception raised,  *)
(*                   "" when the call returns.                             *)
(***************************************************************************)
EXTENDS Integers, Sequences, FiniteSets, TLC

VARIABLES py, js_obj, heap, fs, last

vars == <<py, js_obj, heap, fs, last>>

(***************************************************************************)
(* Bounds of the model.                                                    *)
(***************************************************************************)
\* objects constructed from the raw record in one run
MaxObjs == 2
\* dispatch keys a raw record may lack at once
MaxMissing == 2

\* the values id(self) takes: one address per live object
Addresses == 1..MaxObjs

(***************************************************************************)
(* Strings.                                                                *)
(***************************************************************************)
CharAt(s, i) == SubSeq(s, i, i)

\* s[0:n]
Slice0(s, n) == SubSeq(s, 1, IF Len(s) < n THEN Len(s) ELSE n)

IsAscii(c) == c /= "^"

RECURSIVE DropNonAscii(_)
DropNonAscii(s) ==
    IF Len(s) = 0 THEN ""
    ELSE (IF IsAscii(CharAt(s, 1)) THEN CharAt(s, 1) ELSE "")
             \o DropNonAscii(SubSeq(s, 2, Len(s)))

RECURSIVE Contains(_, _)
Contains(s, sub) ==
    IF Len(s) < Len(sub) THEN FALSE
    ELSE IF SubSeq(s, 1, Len(sub)) = sub THEN TRUE
    ELSE Contains(SubSeq(s, 2, Len(s)), sub)

EndsWith(s, suf) ==
    /\ Len(s) >= Len(suf)
    /\ SubSeq(s, Len(s) - Len(suf) + 1, Len(s)) = suf

RECURSIVE JoinStr(_)
JoinStr(ss) == IF ss = <<>> THEN "" ELSE Head(ss) \o JoinStr(Tail(ss))

(***************************************************************************)
(* Python dict and attribute access.                                       *)
(***************************************************************************)
HasKey(d, k) == k \in DOMAIN d
HasAttr(o, a) == a \in DOMAIN o
Without(d, K) == [k \in DOMAIN d \ K |-> d[k]]

\* the value False, as the raw sender of a system message
PyFalse == [pyFalse |-> TRUE]

\* truthiness of a str or a list: non-empty
Truthy(v) == Len(v) > 0

(***************************************************************************)
(* The interpreter the package runs under: str.encode returns a str under  *)
(* Python 2 and a bytes object under Python 3.                             *)
(***************************************************************************)
Interpreters == {"py2", "py3"}

\* s.encode("ascii", "ignore")
EncodeAsciiIgnore(s) ==
    [kind |-> IF py = "py3" THEN "bytes" ELSE "str", s |-> DropNonAscii(s)]

\* str(v) of an encoded value, as "{}".format(v) renders it
StrOfEncoded(v) == IF v.kind = "bytes" THEN "b'" \o v.s \o "'" ELSE v.s

(***************************************************************************)
(* Standard library calls, as message.py uses them.                        *)
(***************************************************************************)
None == << >>
Some(v) == <<v>>

\* mimetypes.guess_extension(mime): None for a type the table lacks
guess_extension(mime) ==
    CASE mime = "image/jpeg" -> Some(".jpg")
      [] mime = "image/png"  -> Some(".png")
      [] mime = "audio/ogg"  -> Some(".oga")
      [] mime = "video/mp4"  -> Some(".mp4")
      [] OTHER               -> None

\* datetime.fromtimestamp(ts), and str() of it (local time = UTC); the raw
\* records carry the timestamp 0
fromtimestamp(ts) == [datetime |-> ts]
StrOfDatetime(d) ==
    CASE d.datetime = 0     -> "1970-01-01 00:00:00"
      [] d.datetime = 86400 -> "1970-01-02 00:00:00"
      [] OTHER              -> "epoch+" \o ToString(d.datetime) \o "s"

\* os.path.join(path, name) for a relative name
os_path_join(path, name) ==
    IF Len(path) = 0 THEN name
    ELSE IF EndsWith(path, "/") THEN path \o name
    ELSE path \o "/" \o name

B64Alphabet ==
    "ABCDEFGHIJKLMNOPQRSTUVWXYZabcdefghijklmnopqrstuvwxyz0123456789+/"
B64Pad == "="

B64Chars == {CharAt(B64Alphabet, i) : i \in 1..Len(B64Alphabet)}
B64Index ==
    [c \in B64Chars |->
        (CHOOSE i \in 1..Len(B64Alphabet) : CharAt(B64Alphabet, i) = c) - 1]

IsB64Char(c) == c \in B64Chars
B64Value(c) == B64Index[c]
B64Char(v) == CharAt(B64Alphabet, v + 1)

\* binascii.a2b_base64 without strict mode: characters outside the alphabet
\* are skipped, a complete pad sequence ends the input, a dangling group is
\* an error.
RECURSIVE a2b_base64(_, _, _, _, _, _)
a2b_base64(s, i, quad_pos, leftchar, pads, out) ==
    IF i > Len(s)
    THEN [exc |-> IF quad_pos /= 0 THEN "binascii.Error" ELSE "", out |-> out]
    ELSE LET c == CharAt(s, i) IN
         IF c = B64Pad
         THEN IF quad_pos >= 2 /\ quad_pos + pads + 1 >= 4
              THEN [exc |-> "", out |-> out]
              ELSE a2b_base64(s, i + 1, quad_pos, leftchar,
                              IF quad_pos >= 2 THEN pads + 1 ELSE pads, out)
         ELSE IF ~IsB64Char(c)
         THEN a2b_base64(s, i + 1, quad_pos, leftchar, pads, out)
         ELSE LET v == B64Value(c) IN
              CASE quad_pos = 0 ->
                     a2b_base64(s, i + 1, 1, v, 0, out)
                [] quad_pos = 1 ->
                     a2b_base64(s, i + 1, 2, v % 16, 0,
                                Append(out, leftchar * 4 + v \div 16))
                [] quad_pos = 2 ->
                     a2b_base64(s, i + 1, 3, v % 4, 0,
                                Append(out, leftchar * 16 + v \div 4))
                [] OTHER ->
                     a2b_base64(s, i + 1, 0, 0, 0,
                                Append(out, leftchar * 64 + v))

\* base64.b64decode(s); Python 2 reports the failure as TypeError
b64decode(s) ==
    LET r == a2b_base64(s, 1, 0, 0, 0, << >>) IN
    IF r.exc /= "" /\ py = "py2" THEN [exc |-> "TypeError", out |-> r.out]
    ELSE r

(***************************************************************************)
(* Collaborators outside message.py: the helper safe_str, Contact and the  *)
(* driver's contact lookup.                                                *)
(***************************************************************************)
\* safe_str(text): text with the characters unsafe for display stripped
safe_str(text) == DropNonAscii(text)

\* Contact(js_sender, driver): the identity built from the raw sender
Contact(js_sender) == [id |-> js_sender.id, name |-> js_sender.name]
get_safe_name(contact) == safe_str(contact.name)

\* the contacts the driver can resolve
DriverContacts == ("a" :> "Alice") @@ ("b" :> "Bob")

\* driver.get_contact_from_id(x): fails for an id the driver does not know
get_contact_from_id(x) ==
    IF x \in DOMAIN DriverContacts
    THEN [exc |-> "", val |-> [id |-> x, name |-> DriverContacts[x]]]
    ELSE [exc |-> "ResolutionError", val |-> [id |-> x, name |-> ""]]

(***************************************************************************)
(* Constructors.  Each returns [exc, obj]: the exception that leaves       *)
(* __init__ ("" for none) and the object as built.                         *)
(***************************************************************************)
PreviewLen == 25

NoAttrs == [a \in {} |-> ""]
Raise(e) == [exc |-> e, obj |-> NoAttrs]
Return(o) == [exc |-> "", obj |-> o]

\* Message.__init__ appending the ellipsis only to a truncated preview
Message_init_ellipsis_if_cut(js, cls) ==
    IF ~HasKey(js, "sender") THEN Raise("KeyError")
    ELSE IF ~HasKey(js, "timestamp") THEN Raise("KeyError")
    ELSE IF ~HasKey(js, "content") THEN Raise("KeyError")
    ELSE Return(
        ("__class__" :> cls)
        @@ ("sender" :> IF js["sender"] = PyFalse THEN PyFalse
                        ELSE Contact(js["sender"]))
        @@ ("timestamp" :> fromtimestamp(js["timestamp"]))
        @@ (IF Truthy(js["content"])
            THEN ("content" :> js["content"])
                 @@ ("safe_content" :>
                        safe_str(Slice0(js["content"], PreviewLen))
                        \o IF Len(js["content"]) > PreviewLen THEN "..."
                           ELSE "")
            ELSE NoAttrs)
        @@ ("js_obj" :> js))

\* Message.__init__
Message_init(js, cls) ==
    IF ~HasKey(js, "sender") THEN Raise("KeyError")
    ELSE IF ~HasKey(js, "timestamp") THEN Raise("KeyError")
    ELSE IF ~HasKey(js, "content") THEN Raise("KeyError")
    ELSE Return(
        ("__class__" :> cls)
        @@ ("sender" :> IF js["sender"] = PyFalse THEN PyFalse
                        ELSE Contact(js["sender"]))
        @@ ("timestamp" :> fromtimestamp(js["timestamp"]))
        @@ (IF Truthy(js["content"])
            THEN ("content" :> js["content"])
                 @@ ("safe_content" :>
                        safe_str(Slice0(js["content"], PreviewLen)) \o "...")
            ELSE NoAttrs)
        @@ ("js_obj" :> js))

\* MediaMessage.__init__ naming the file after id(self) whatever the record
MediaMessage_init_id_only(js, cls, id) ==
    LET base == Message_init(js, cls) IN
    IF base.exc /= "" THEN base
    ELSE IF ~HasKey(js, "type") THEN Raise("KeyError")
    ELSE IF ~HasKey(js, "size") THEN Raise("KeyError")
    ELSE IF ~HasKey(js, "mime") THEN Raise("KeyError")
    ELSE LET extension == guess_extension(js["mime"]) IN
         IF extension = None THEN Raise("TypeError")
         ELSE Return(("type" :> js["type"]) @@ ("size" :> js["size"])
                     @@ ("mime" :> js["mime"])
                     @@ ("filename" :> ToString(id) \o extension[1])
                     @@ base.obj)

\* MediaMessage.__init__; id is id(self)
MediaMessage_init(js, cls, id) ==
    LET base == Message_init(js, cls) IN
    IF base.exc /= "" THEN base
    ELSE IF ~HasKey(js, "type") THEN Raise("KeyError")
    ELSE IF ~HasKey(js, "size") THEN Raise("KeyError")
    ELSE IF ~HasKey(js, "mime") THEN Raise("KeyError")
    ELSE LET extension == guess_extension(js["mime"])
             stem == IF HasKey(js, "__x_filehash") THEN js["__x_filehash"]
                     ELSE ToString(id)
         IN  \* ''.join([..., None]) is a TypeError in the try and in the except
             IF extension = None THEN Raise("TypeError")
             ELSE Return(("type" :> js["type"]) @@ ("size" :> js["size"])
                         @@ ("mime" :> js["mime"])
                         @@ ("filename" :> stem \o extension[1])
                         @@ base.obj)

\* MMSMessage.__init__
MMSMessage_init(js, cls, id) == MediaMessage_init(js, cls, id)

\* VCardMessage.__init__
VCardMessage_init(js, cls) ==
    LET base == Message_init(js, cls) IN
    IF base.exc /= "" THEN base
    ELSE IF ~HasKey(js, "type") THEN Raise("KeyError")
    ELSE Return(("type" :> js["type"])
                @@ ("contacts" :> EncodeAsciiIgnore(js["content"]))
                @@ base.obj)

\* the list comprehension skipping the ids the driver cannot resolve
RECURSIVE ResolveRecipients_skip(_)
ResolveRecipients_skip(ids) ==
    IF ids = << >> THEN [exc |-> "", val |-> << >>]
    ELSE LET first == get_contact_from_id(Head(ids))
             rest == ResolveRecipients_skip(Tail(ids))
         IN  IF first.exc /= "" THEN rest
             ELSE [exc |-> "", val |-> <<first.val>> \o rest.val]

\* [self.driver.get_contact_from_id(x) for x in ids]
RECURSIVE ResolveRecipients(_)
ResolveRecipients(ids) ==
    IF ids = << >> THEN [exc |-> "", val |-> << >>]
    ELSE LET first == get_contact_from_id(Head(ids)) IN
         IF first.exc /= "" THEN [exc |-> first.exc, val |-> << >>]
         ELSE LET rest == ResolveRecipients(Tail(ids)) IN
              IF rest.exc /= "" THEN rest
              ELSE [exc |-> "", val |-> <<first.val>> \o rest.val]

\* NotificationMessage.__init__
NotificationMessage_init(js, cls) ==
    LET base == Message_init(js, cls) IN
    IF base.exc /= "" THEN base
    ELSE IF ~HasKey(js, "type") THEN Raise("KeyError")
    ELSE IF ~HasKey(js, "subtype") THEN Raise("KeyError")
    ELSE IF ~HasKey(js, "recipients") THEN Raise("KeyError")
    ELSE LET own == ("type" :> js["type"])
                    @@ ("subtype" :> EncodeAsciiIgnore(js["subtype"]))
         IN  IF ~Truthy(js["recipients"]) THEN Return(own @@ base.obj)
             ELSE LET r == ResolveRecipients(js["recipients"]) IN
                  IF r.exc /= "" THEN Raise(r.exc)
                  ELSE Return(own @@ ("recipients" :> r.val) @@ base.obj)

(***************************************************************************)
(* factory_message: [exc, obj, ctor], ctor the constructor it called       *)
(* ("" when the dispatch itself raised).                                   *)
(***************************************************************************)
Called(ctor, r) == [exc |-> r.exc, obj |-> r.obj, ctor |-> ctor]

\* factory_message with the isMMS test moved ahead of the isMedia test
factory_message_mms_first(js, id) ==
    IF ~HasKey(js, "isMMS") THEN Called("", Raise("KeyError"))
    ELSE IF js["isMMS"]
    THEN Called("MMSMessage", MMSMessage_init(js, "MMSMessage", id))
    ELSE IF ~HasKey(js, "isMedia") THEN Called("", Raise("KeyError"))
    ELSE IF js["isMedia"]
    THEN Called("MediaMessage", MediaMessage_init(js, "MediaMessage", id))
    ELSE IF ~HasKey(js, "isNotification") THEN Called("", Raise("KeyError"))
    ELSE IF js["isNotification"]
    THEN Called("NotificationMessage",
                NotificationMessage_init(js, "NotificationMessage"))
    ELSE IF ~HasKey(js, "type") THEN Called("", Raise("KeyError"))
    ELSE IF js["type"] \in {"vcard", "multi_vcard"}
    THEN Called("VCardMessage", VCardMessage_init(js, "VCardMessage"))
    ELSE Called("Message", Message_init(js, "Message"))

\* factory_message reading the flags with js_obj.get(key): a missing flag
\* counts as false
factory_message_get(js, id) ==
    IF HasKey(js, "isMedia") /\ js["isMedia"]
    THEN Called("MediaMessage", MediaMessage_init(js, "MediaMessage", id))
    ELSE IF HasKey(js, "isNotification") /\ js["isNotification"]
    THEN Called("NotificationMessage",
                NotificationMessage_init(js, "NotificationMessage"))
    ELSE IF HasKey(js, "isMMS") /\ js["isMMS"]
    THEN Called("MMSMessage", MMSMessage_init(js, "MMSMessage", id))
    ELSE IF HasKey(js, "type") /\ js["type"] \in {"vcard", "multi_vcard"}
    THEN Called("VCardMessage", VCardMessage_init(js, "VCardMessage"))
    ELSE Called("Message", Message_init(js, "Message"))

factory_message(js, id) ==
    IF ~HasKey(js, "isMedia") THEN Called("", Raise("KeyError"))
    ELSE IF js["isMedia"]
    THEN Called("MediaMessage", MediaMessage_init(js, "MediaMessage", id))
    ELSE IF ~HasKey(js, "isNotification") THEN Called("", Raise("KeyError"))
    ELSE IF js["isNotification"]
    THEN Called("NotificationMessage",
                NotificationMessage_init(js, "NotificationMessage"))
    ELSE IF ~HasKey(js, "isMMS") THEN Called("", Raise("KeyError"))
    ELSE IF js["isMMS"]
    THEN Called("MMSMessage", MMSMessage_init(js, "MMSMessage", id))
    ELSE IF ~HasKey(js, "type") THEN Called("", Raise("KeyError"))
    ELSE IF js["type"] \in {"vcard", "multi_vcard"}
    THEN Called("VCardMessage", VCardMessage_init(js, "VCardMessage"))
    ELSE Called("Message", Message_init(js, "Message"))

(***************************************************************************)
(* __repr__ of each variant: [exc, val].                                   *)
(***************************************************************************)
Fails(e) == [exc |-> e, val |-> ""]
Gives(v) == [exc |-> "", val |-> v]

\* safe_str(self.sender.get_safe_name()): False has no get_safe_name
SenderName(self) ==
    IF self["sender"] = PyFalse THEN Fails("AttributeError")
    ELSE Gives(safe_str(get_safe_name(self["sender"])))

\* Message.__repr__
Message_repr(self) ==
    LET sender == SenderName(self) IN
    IF sender.exc /= "" THEN sender
    ELSE IF ~HasAttr(self, "safe_content") THEN Fails("AttributeError")
    ELSE Gives("<Message - from " \o sender.val \o " at "
               \o StrOfDatetime(self["timestamp"]) \o ": "
               \o self["safe_content"] \o ">")

\* MediaMessage.__repr__
MediaMessage_repr(self) ==
    LET sender == SenderName(self) IN
    IF sender.exc /= "" THEN sender
    ELSE Gives("<MediaMessage - " \o self["type"] \o " from " \o sender.val
               \o " at " \o StrOfDatetime(self["timestamp"])
               \o " (" \o self["filename"] \o ")>")

\* MMSMessage.__repr__
MMSMessage_repr(self) ==
    LET sender == SenderName(self) IN
    IF sender.exc /= "" THEN sender
    ELSE Gives("<MMSMessage - " \o self["type"] \o " from " \o sender.val
               \o " at " \o StrOfDatetime(self["timestamp"]) \o ">")

\* VCardMessage.__repr__
VCardMessage_repr(self) ==
    LET sender == SenderName(self) IN
    IF sender.exc /= "" THEN sender
    ELSE Gives("<VCardMessage - " \o self["type"] \o " from " \o sender.val
               \o " at " \o StrOfDatetime(self["timestamp"])
               \o " (" \o StrOfEncoded(self["contacts"]) \o ")>")

\* the table NotificationMessage.__repr__ builds
readable ==
    ("call_log" :> ("miss" :> "Missed Call"))
    @@ ("e2e_notification" :> ("encrypt" :> "Messages now Encrypted"))
    @@ ("gp2" :> (("create" :> "Created group")
                  @@ ("add" :> "Added to group")
                  @@ ("remove" :> "Removed from group")
                  @@ ("leave" :> "Left the group")))

\* readable[type][subtype]: a bytes key equals no str key
ReadablePhrase(type, subtype) ==
    IF ~HasKey(readable, type) THEN Fails("KeyError")
    ELSE IF subtype.kind /= "str" THEN Fails("KeyError")
    ELSE IF ~HasKey(readable[type], subtype.s) THEN Fails("KeyError")
    ELSE Gives(readable[type][subtype.s])

\* NotificationMessage.__repr__
NotificationMessage_repr(self) ==
    LET sender == IF self["sender"] = PyFalse THEN ""
                  ELSE "from " \o safe_str(get_safe_name(self["sender"]))
        phrase == ReadablePhrase(self["type"], self["subtype"])
        recip  == IF ~HasAttr(self, "recipients") THEN ""
                  ELSE JoinStr([i \in DOMAIN self["recipients"] |->
                           safe_str(get_safe_name(self["recipients"][i]))])
    IN  IF phrase.exc /= "" THEN phrase
        ELSE Gives("<NotificationMessage - " \o phrase.val \o " " \o recip
                   \o " " \o sender \o " at "
                   \o StrOfDatetime(self["timestamp"]) \o ">")

\* repr(self), by the class of self
repr(self) ==
    CASE self["__class__"] = "MediaMessage" -> MediaMessage_repr(self)
      [] self["__class__"] = "MMSMessage" -> MMSMessage_repr(self)
      [] self["__class__"] = "VCardMessage" -> VCardMessage_repr(self)
      [] self["__class__"] = "NotificationMessage" ->
             NotificationMessage_repr(self)
      [] OTHER -> Message_repr(self)

(***************************************************************************)
(* MediaMessage.save_media(path) on the file system files: [exc, files].   *)
(* open(..., "wb") creates or truncates the file before b64decode runs.    *)
(***************************************************************************)
WritableDirs == {"/tmp"}
Dirs == WritableDirs \cup {"/ro"}

WriteFile(files, name, bytes) ==
    [n \in DOMAIN files \cup {name} |-> IF n = name THEN bytes ELSE files[n]]

save_media(self, path, files) ==
    LET name == os_path_join(path, self["filename"]) IN
    IF path \notin WritableDirs THEN [exc |-> "IOError", files |-> files]
    ELSE IF ~HasAttr(self, "content")
    THEN [exc |-> "AttributeError", files |-> WriteFile(files, name, << >>)]
    ELSE LET d == b64decode(self["content"]) IN
         IF d.exc /= ""
         THEN [exc |-> d.exc, files |-> WriteFile(files, name, << >>)]
         ELSE [exc |-> "", files |-> WriteFile(files, name, d.out)]

(***************************************************************************)
(* Raw records.                                                            *)
(***************************************************************************)
RECURSIVE Rep(_, _)
Rep(c, n) == IF n = 0 THEN "" ELSE c \o Rep(c, n - 1)

Alice == [id |-> "a", name |-> "Alice"]
Zoe == [id |-> "z", name |-> "Zo^"]

DispatchKeys == {"isMedia", "isNotification", "isMMS", "type"}

\* a record that carries every key
Defaults ==
    [isMedia |-> FALSE, isNotification |-> FALSE, isMMS |-> FALSE,
     type |-> "chat", sender |-> Alice, timestamp |-> 0, content |-> "hi",
     size |-> 3, mime |-> "image/jpeg", subtype |-> "create",
     recipients |-> << >>]
    @@ ("__x_filehash" :> "h1")

Flags(m, n, s) == [isMedia |-> m, isNotification |-> n, isMMS |-> s]

\* every combination of the flags and the type, some dispatch keys missing
DispatchRecords ==
    { Without(Flags(m, n, s) @@ [type |-> t] @@ Defaults, K) :
        m \in BOOLEAN, n \in BOOLEAN, s \in BOOLEAN,
        t \in {"chat", "vcard", "multi_vcard", "gp2"},
        K \in {X \in SUBSET DispatchKeys : Cardinality(X) <= MaxMissing} }

VariantFlags ==
    {Flags(FALSE, FALSE, FALSE), Flags(TRUE, FALSE, FALSE),
     Flags(FALSE, TRUE, FALSE), Flags(FALSE, FALSE, TRUE)}

Contents ==
    {"", "hi", Rep("A", 24), Rep("A", 25), Rep("A", 26), Rep("A", 30),
     "caf^ au lait", Rep("A", 20) \o "^^" \o Rep("B", 8)}

\* every variant with each content and sender, or with a base key missing
ContentRecords ==
    { f @@ [type |-> t, content |-> c, sender |-> snd] @@ Defaults :
        f \in VariantFlags, t \in {"chat", "vcard"}, c \in Contents,
        snd \in {PyFalse, Alice, Zoe} }
    \cup { Without(f @@ Defaults, {k}) :
             f \in VariantFlags, k \in {"content", "sender", "timestamp"} }

B64Contents ==
    {"QUJD", "QUI=", "QQ==", "QUJ=", "QUJD!", "QUJ", "Q", "", "QQ==QUJD",
     "//8AREU="}

\* media and MMS records: the MIME type, the content hash, the payload
MediaRecords ==
    { Without(f @@ [type |-> "image", mime |-> mime, content |-> c]
                @@ Defaults, K) :
        f \in {Flags(TRUE, FALSE, FALSE), Flags(FALSE, FALSE, TRUE)},
        mime \in {"image/jpeg", "audio/ogg", "application/x-unknown"},
        c \in B64Contents,
        K \in {{}, {"__x_filehash"}} }
    \cup { Without(Flags(TRUE, FALSE, FALSE) @@ Defaults, {k}) :
             k \in {"size", "mime"} }

\* notification records: the (type, subtype) pair, the recipients
NotificationRecords ==
    { Flags(FALSE, TRUE, FALSE)
        @@ [type |-> t, subtype |-> st, sender |-> snd, recipients |-> rs]
        @@ Defaults :
        t \in {"gp2", "call_log", "e2e_notification", "revoke"},
        st \in {"create", "add", "remove", "leave", "miss", "encrypt",
                "modify"},
        snd \in {PyFalse, Alice},
        rs \in {<< >>, <<"b", "a">>} }
    \cup { Without(Flags(FALSE, TRUE, FALSE)
                     @@ [type |-> "gp2", subtype |-> "add", recipients |-> rs]
                     @@ Defaults, K) :
             rs \in {<< >>, <<"a">>, <<"a", "b">>, <<"b", "a", "b">>, <<"zz">>,
                     <<"a", "zz">>, <<"zz", "a">>},
             K \in {{}, {"recipients"}, {"subtype"}} }

RawRecords ==
    DispatchRecords \cup ContentRecords \cup MediaRecords
        \cup NotificationRecords

(***************************************************************************)
(* The state machine.  js_obj is the raw record handed to factory_message; *)
(* heap maps id(o) to each message object o built from it; fs maps a file  *)
(* name to the file's bytes; last is the outcome of the last call.         *)
(***************************************************************************)
StaleBytes == <<255, 0>>
NoCall == [op |-> "none", ref |-> 0, path |-> "", exc |-> "", val |-> "",
           ctor |-> ""]

Init ==
    /\ py \in Interpreters
    /\ js_obj \in RawRecords
    /\ heap = << >>
    /\ fs = ("/tmp/h1.jpg" :> StaleBytes)
    /\ last = NoCall

\* m = factory_message(js_obj, driver)
FactoryMessage ==
    /\ Cardinality(DOMAIN heap) < MaxObjs
    /\ \E id \in Addresses \ DOMAIN heap :
         LET r == factory_message(js_obj, id) IN
         /\ heap' = IF r.exc = "" THEN heap @@ (id :> r.obj) ELSE heap
         /\ last' = [op |-> "factory_message",
                     ref |-> IF r.exc = "" THEN id ELSE 0, path |-> "",
                     exc |-> r.exc, val |-> "", ctor |-> r.ctor]
    /\ UNCHANGED <<py, js_obj, fs>>

\* repr(m) for a message m built earlier
Repr ==
    /\ \E id \in DOMAIN heap :
         LET r == repr(heap[id]) IN
         last' = [op |-> "repr", ref |-> id, path |-> "", exc |-> r.exc,
                  val |-> r.val, ctor |-> ""]
    /\ UNCHANGED <<py, js_obj, heap, fs>>

\* m.save_media(path) for a MediaMessage or MMSMessage m built earlier
SaveMedia ==
    /\ \E id \in DOMAIN heap, path \in Dirs :
         /\ heap[id]["__class__"] \in {"MediaMessage", "MMSMessage"}
         /\ LET r == save_media(heap[id], path, fs) IN
            /\ fs' = r.files
            /\ last' = [op |-> "save_media", ref |-> id, path |-> path,
                        exc |-> r.exc, val |-> "", ctor |-> ""]
    /\ UNCHANGED <<py, js_obj, heap>>

Next == FactoryMessage \/ Repr \/ SaveMedia

Spec == Init /\ [][Next]_vars

(***************************************************************************)
(* Properties.                                                             *)
(***************************************************************************)
Built == {heap[id] : id \in DOMAIN heap}
ClassOf(o) == o["__class__"]
IsMediaClass(o) == ClassOf(o) \in {"MediaMessage", "MMSMessage"}
LastObj == heap[last.ref]
Returned == last.op = "factory_message" /\ last.exc = ""

\* the variant the ordered dispatch of a complete record names
FirstMatch(js) ==
    IF js["isMedia"] THEN "MediaMessage"
    ELSE IF js["isNotification"] THEN "NotificationMessage"
    ELSE IF js["isMMS"] THEN "MMSMessage"
    ELSE IF js["type"] \in {"vcard", "multi_vcard"} THEN "VCardMessage"
    ELSE "Message"

\* C1: for a record with the keys isMedia, isNotification, isMMS and type,
\* factory_message calls the constructor of the first matching variant in the
\* order media, notification, MMS, vCard, plain, and every message it returns
\* is of that variant; with isMedia true that is MediaMessage whatever the
\* other flags and the type are.
C1_FirstMatchWins ==
    DispatchKeys \subseteq DOMAIN js_obj =>
        /\ last.op = "factory_message" => last.ctor = FirstMatch(js_obj)
        /\ \A o \in Built : ClassOf(o) = FirstMatch(js_obj)
        /\ js_obj["isMedia"] => \A o \in Built : ClassOf(o) = "MediaMessage"

C1_Witness ==
    /\ Returned
    /\ DispatchKeys \subseteq DOMAIN js_obj
    /\ js_obj["isMedia"] /\ js_obj["isNotification"] /\ js_obj["isMMS"]
    /\ js_obj["type"] = "vcard"
    /\ ClassOf(LastObj) = "MediaMessage"

\* the dispatch keys factory_message or the constructor it selects reads
KeysRead(js) ==
    {"isMedia", "type"}
    \cup (IF HasKey(js, "isMedia") /\ ~js["isMedia"]
          THEN {"isNotification"}
               \cup (IF HasKey(js, "isNotification") /\ ~js["isNotification"]
                     THEN {"isMMS"} ELSE {})
          ELSE {})

\* C2 as stated: a record lacking any of isMedia, isNotification, isMMS, type
\* makes factory_message end in an error and return no message, whatever the
\* keys that are present hold.
C2_AnyMissingKeyFails ==
    (last.op = "factory_message" /\ ~(DispatchKeys \subseteq DOMAIN js_obj)) =>
        /\ last.exc /= ""
        /\ last.ref = 0

\* C2 amended: factory_message ends in KeyError and returns no message when
\* the record lacks a dispatch key that is read: isMedia, type, isNotification
\* if isMedia is false, isMMS if isMedia and isNotification are false.  A
\* record lacking only keys behind the first true flag is dispatched on that
\* flag, and a message built from a record that lacks a dispatch key is a
\* MediaMessage or a NotificationMessage.
C2_MissingReadKeyFails ==
    /\ last.op = "factory_message" =>
          IF KeysRead(js_obj) \subseteq DOMAIN js_obj
          THEN last.ctor = IF js_obj["isMedia"] THEN "MediaMessage"
                           ELSE IF js_obj["isNotification"]
                                THEN "NotificationMessage"
                           ELSE IF js_obj["isMMS"] THEN "MMSMessage"
                           ELSE IF js_obj["type"] \in {"vcard", "multi_vcard"}
                                THEN "VCardMessage"
                           ELSE "Message"
          ELSE last.exc = "KeyError" /\ last.ref = 0
    /\ ~(KeysRead(js_obj) \subseteq DOMAIN js_obj) => heap = << >>
    /\ ~(DispatchKeys \subseteq DOMAIN js_obj) =>
          \A o \in Built : ClassOf(o) \in {"MediaMessage", "NotificationMessage"}

C2_Witness ==
    /\ last.op = "factory_message"
    /\ DispatchKeys \ DOMAIN js_obj = {"isMMS"}
    /\ ~js_obj["isMedia"] /\ ~js_obj["isNotification"]
    /\ last.exc = "KeyError"

\* C3 as stated: a message built from a record whose sender is False has
\* False as its sender, and formatting it returns a summary without a "from"
\* clause instead of failing (a notification whose (type, subtype) pair the
\* table lacks raises the lookup error of C4).
C3_NoSenderFormats ==
    /\ (HasKey(js_obj, "sender") /\ js_obj["sender"] = PyFalse) =>
          \A o \in Built : o["sender"] = PyFalse
    /\ (last.op = "repr" /\ LastObj["sender"] = PyFalse) =>
          \/ last.exc = "" /\ ~Contains(last.val, "from")
          \/ /\ ClassOf(LastObj) = "NotificationMessage"
             /\ last.exc = "KeyError"

\* the (type, subtype) pairs of the table
Registered ==
    {<<"call_log", "miss">>, <<"e2e_notification", "encrypt">>,
     <<"gp2", "create">>, <<"gp2", "add">>, <<"gp2", "remove">>,
     <<"gp2", "leave">>}
Phrase(t, st) ==
    CASE <<t, st>> = <<"call_log", "miss">> -> "Missed Call"
      [] <<t, st>> = <<"e2e_notification", "encrypt">> ->
             "Messages now Encrypted"
      [] <<t, st>> = <<"gp2", "create">> -> "Created group"
      [] <<t, st>> = <<"gp2", "add">> -> "Added to group"
      [] <<t, st>> = <<"gp2", "remove">> -> "Removed from group"
      [] OTHER -> "Left the group"

\* C4 as stated: formatting a NotificationMessage returns a summary holding
\* the phrase of its (type, subtype) pair when the pair is one of the six of
\* the table, and raises a lookup error for every other pair.
C4_PhraseOrLookupError ==
    (last.op = "repr" /\ ClassOf(LastObj) = "NotificationMessage") =>
        IF <<js_obj["type"], js_obj["subtype"]>> \in Registered
        THEN /\ last.exc = ""
             /\ Contains(last.val, Phrase(js_obj["type"], js_obj["subtype"]))
        ELSE last.exc = "KeyError"

\* C5 as stated: constructing a media message never fails on the MIME type:
\* with or without __x_filehash, for a known or an unknown mime, the message
\* is built with a filename that ends in the extension of the MIME type (a
\* fallback extension for an unknown type).
C5_FilenameForAnyMime ==
    (/\ last.op = "factory_message"
     /\ last.ctor \in {"MediaMessage", "MMSMessage"}
     /\ {"sender", "timestamp", "content", "type", "size", "mime"}
            \subseteq DOMAIN js_obj) =>
        /\ last.exc = ""
        /\ HasAttr(LastObj, "filename")
        /\ guess_extension(js_obj["mime"]) /= None =>
              EndsWith(LastObj["filename"], guess_extension(js_obj["mime"])[1])

\* C6: the messages built from one media record that carries __x_filehash all
\* have the same filename, the hash followed by the extension of the MIME
\* type; without the hash the filename is id(self) followed by the extension,
\* so two objects built from the same record differ in it.
C6_HashNamesFile ==
    \A a \in DOMAIN heap : IsMediaClass(heap[a]) =>
        IF HasKey(js_obj, "__x_filehash")
        THEN /\ heap[a]["filename"] =
                   js_obj["__x_filehash"] \o guess_extension(js_obj["mime"])[1]
             /\ \A b \in DOMAIN heap :
                   heap[b]["filename"] = heap[a]["filename"]
        ELSE /\ heap[a]["filename"] =
                   ToString(a) \o guess_extension(js_obj["mime"])[1]
             /\ \A b \in DOMAIN heap \ {a} :
                   heap[b]["filename"] /= heap[a]["filename"]

C6_Witness ==
    /\ Returned
    /\ HasKey(js_obj, "__x_filehash")
    /\ js_obj["mime"] = "audio/ogg"
    /\ \E a, b \in DOMAIN heap :
          /\ a /= b
          /\ IsMediaClass(heap[a])
          /\ heap[a]["filename"] = "h1.oga"
          /\ heap[b]["filename"] = "h1.oga"

\* C7: a message has a content field exactly when the raw content is
\* non-empty, and a preview exactly when it has content; the preview is the
\* sanitized first min(25, len) characters of the content followed by "...",
\* also for content shorter than 25 characters: 30 display-safe characters
\* give a preview of 28.
C7_Preview ==
    \A o \in Built :
        /\ HasAttr(o, "content") <=> Truthy(js_obj["content"])
        /\ HasAttr(o, "safe_content") <=> HasAttr(o, "content")
        /\ HasAttr(o, "content") =>
              LET c == js_obj["content"]
                  n == IF Len(c) < 25 THEN Len(c) ELSE 25
              IN  /\ o["content"] = c
                  /\ o["safe_content"] = safe_str(SubSeq(c, 1, n)) \o "..."
                  /\ DropNonAscii(c) = c => Len(o["safe_content"]) = n + 3
                  /\ c = Rep("A", 30) =>
                        /\ o["safe_content"] = Rep("A", 25) \o "..."
                        /\ Len(o["safe_content"]) = 28
                  /\ c = "hi" => o["safe_content"] = "hi..."

C7_Witness ==
    /\ Returned
    /\ js_obj["content"] = Rep("A", 30)
    /\ Len(LastObj["safe_content"]) = 28

\* C8: a NotificationMessage has a recipients field exactly when the raw list
\* is non-empty; the field is the raw list mapped through the driver's
\* get_contact_from_id, same order, same length; when the lookup fails for an
\* element, factory_message ends in that failure and returns no message.
C8_Recipients ==
    (HasKey(js_obj, "recipients") /\ HasKey(js_obj, "isNotification")) =>
        LET raw == js_obj["recipients"]
            unknown == \E i \in DOMAIN raw : get_contact_from_id(raw[i]).exc /= ""
        IN  /\ \A o \in Built : ClassOf(o) = "NotificationMessage" =>
                  /\ HasAttr(o, "recipients") <=> Len(raw) > 0
                  /\ ~unknown
                  /\ HasAttr(o, "recipients") =>
                        /\ Len(o["recipients"]) = Len(raw)
                        /\ \A i \in DOMAIN raw :
                              /\ o["recipients"][i].id = raw[i]
                              /\ o["recipients"][i] =
                                    get_contact_from_id(raw[i]).val
            /\ (/\ last.op = "factory_message"
                /\ last.ctor = "NotificationMessage"
                /\ unknown
                /\ {"sender", "timestamp", "content", "type", "subtype"}
                       \subseteq DOMAIN js_obj) =>
                  last.exc = "ResolutionError" /\ last.ref = 0 /\ heap = << >>

C8_Witness ==
    /\ Returned
    /\ ClassOf(LastObj) = "NotificationMessage"
    /\ js_obj["recipients"] = <<"b", "a", "b">>
    /\ Len(LastObj["recipients"]) = 3
    /\ LastObj["recipients"][1].name = "Bob"

\* content that is the base64 encoding of some bytes: groups of four
\* alphabet characters, the last group padded with at most two "=" and
\* carrying no stray bits
IsBase64(s) ==
    LET n == Len(s)
        pads == IF n >= 2 /\ SubSeq(s, n - 1, n) = "==" THEN 2
                ELSE IF n >= 1 /\ CharAt(s, n) = "=" THEN 1 ELSE 0
    IN  /\ n % 4 = 0
        /\ \A i \in 1..(n - pads) : IsB64Char(CharAt(s, i))
        /\ pads = 1 => B64Value(CharAt(s, n - 1)) % 4 = 0
        /\ pads = 2 => B64Value(CharAt(s, n - 2)) % 16 = 0

\* base64.b64encode(bytes): reading a written file back and encoding it
RECURSIVE b64encode(_)
b64encode(b) ==
    IF Len(b) = 0 THEN ""
    ELSE IF Len(b) = 1
    THEN B64Char(b[1] \div 4) \o B64Char((b[1] % 4) * 16) \o "=="
    ELSE IF Len(b) = 2
    THEN B64Char(b[1] \div 4) \o B64Char((b[1] % 4) * 16 + b[2] \div 16)
             \o B64Char((b[2] % 16) * 4) \o "="
    ELSE B64Char(b[1] \div 4) \o B64Char((b[1] % 4) * 16 + b[2] \div 16)
             \o B64Char((b[2] % 16) * 4 + b[3] \div 64) \o B64Char(b[3] % 64)
             \o b64encode(SubSeq(b, 4, Len(b)))

SavedTo(path) ==
    last.op = "save_media" /\ last.path = path /\ HasAttr(LastObj, "content")

\* C9, the round trip: after save_media(path) of valid base64 content into a
\* writable directory the file <path>/<filename> holds the decoded bytes
\* (encoding them again gives the content back), whatever it held before.
C9_RoundTrip ==
    \A path \in WritableDirs :
        (SavedTo(path) /\ IsBase64(LastObj["content"])) =>
            LET name == os_path_join(path, LastObj["filename"]) IN
            /\ last.exc = ""
            /\ name \in DOMAIN fs
            /\ b64encode(fs[name]) = LastObj["content"]

\* C9, the rejection: content that is not valid base64 gives an error.
C9_Rejects ==
    \A path \in WritableDirs :
        (SavedTo(path) /\ ~IsBase64(LastObj["content"])) => last.exc /= ""

\* C9 as stated: the round trip for valid base64 content, an error outcome
\* for any other content.
C9_SaveMedia == C9_RoundTrip /\ C9_Rejects

\* C10 as stated: every message factory_message returns with a sender present
\* can be formatted, a plain Message built from empty content included:
\* __repr__ returns a summary rather than failing (a notification whose
\* (type, subtype) pair the table lacks raises the lookup error of C4), and
\* the summary is the same on every call.
C10_EveryVariantFormats ==
    (last.op = "repr" /\ LastObj["sender"] /= PyFalse) =>
        /\ \/ last.exc = "" /\ Len(last.val) > 0
           \/ /\ ClassOf(LastObj) = "NotificationMessage"
              /\ last.exc = "KeyError"
        /\ last.val = repr(LastObj).val

====
